---- MODULE Spec2Model ----
(***************************************************************************)
(* A model of PRY_Board.py: the loader (load_data, determine_buyer,        *)
(* clean_name), the date parser (parse_date_simple) and the three Dash     *)
(* callbacks (handle_resets, update_dropdown_options, update_dashboard).   *)
(*                                                                         *)
(* Text is a sequence of one-character strings, so that upper-casing, the  *)
(* suffix regular expression, strip(), str() and sorted() are computed     *)
(* character by character as Python computes them.                         *)
(***************************************************************************)
EXTENDS Integers, Sequences, FiniteSets, TLC

VARIABLES xlsx, df, pc, value, options, view, pending, last

vars == <<xlsx, df, pc, value, options, view, pending, last>>

(***************************************************************************)
(* Characters, in code-point order (the order sorted() uses).              *)
(***************************************************************************)
Digits == <<"0", "1", "2", "3", "4", "5", "6", "7", "8", "9">>

UpperCase == <<"A", "B", "C", "D", "E", "F", "G", "H", "I", "J", "K", "L", "M",
               "N", "O", "P", "Q", "R", "S", "T", "U", "V", "W", "X", "Y", "Z">>

LowerCase == <<"a", "b", "c", "d", "e", "f", "g", "h", "i", "j", "k", "l", "m",
               "n", "o", "p", "q", "r", "s", "t", "u", "v", "w", "x", "y", "z">>

CodePoints == <<" ", "$", "-", ".", "/">> \o Digits \o UpperCase \o LowerCase

Range(f) == {f[i] : i \in DOMAIN f}

IndexOf(seq, c) == CHOOSE i \in DOMAIN seq : seq[i] = c

ord(c) == IndexOf(CodePoints, c)

IsSpace(c) == c = " "

IsDigit(c) == c \in Range(Digits)

\* \w of the re module, over the characters of CodePoints
IsWordChar(c) == c \in Range(Digits) \cup Range(UpperCase) \cup Range(LowerCase)

\* str.upper, one character
UpperChar(c) == IF c \in Range(LowerCase) THEN UpperCase[IndexOf(LowerCase, c)] ELSE c

upper(s) == [i \in DOMAIN s |-> UpperChar(s[i])]

\* str.lstrip / str.rstrip / str.strip
RECURSIVE lstrip(_)
lstrip(s) == IF s # <<>> /\ IsSpace(Head(s)) THEN lstrip(Tail(s)) ELSE s

RECURSIVE rstrip(_)
rstrip(s) ==
    IF s # <<>> /\ IsSpace(s[Len(s)]) THEN rstrip(SubSeq(s, 1, Len(s) - 1)) ELSE s

strip(s) == rstrip(lstrip(s))

\* Python's < on str: lexicographic by code point, a proper prefix first
RECURSIVE StrLess(_, _)
StrLess(a, b) ==
    IF b = <<>> THEN FALSE
    ELSE IF a = <<>> THEN TRUE
    ELSE IF Head(a) = Head(b) THEN StrLess(Tail(a), Tail(b))
    ELSE ord(Head(a)) < ord(Head(b))

\* str(n) of a non-negative int
RECURSIVE StrOfNat(_)
StrOfNat(n) ==
    IF n < 10 THEN <<Digits[n + 1]>> ELSE StrOfNat(n \div 10) \o <<Digits[(n % 10) + 1]>>

\* int(s) of a string of digits
RECURSIVE NatOfStr(_)
NatOfStr(s) ==
    IF s = <<>> THEN 0
    ELSE 10 * NatOfStr(SubSeq(s, 1, Len(s) - 1)) + (IndexOf(Digits, s[Len(s)]) - 1)

AllDigits(s) == \A i \in DOMAIN s : IsDigit(s[i])

(***************************************************************************)
(* Spreadsheet cells as pandas reads them: a missing cell (NaN / NaT), a   *)
(* text cell, an integer cell, a date cell.                                *)
(***************************************************************************)
NaN == [t |-> "nan", s |-> <<>>, n |-> 0]

TextCell(s) == [t |-> "str", s |-> s, n |-> 0]

IntCell(n) == [t |-> "int", s |-> <<>>, n |-> n]

\* a calendar date, ordered as the integer yyyymmdd
DateCell(y, m, d) == [t |-> "date", s |-> <<>>, n |-> (y * 10000) + (m * 100) + d]

\* pd.notna / pd.isna
notna(c) == c.t # "nan"

\* str(x) and Series.astype(str), one value
str(c) ==
    CASE c.t = "str" -> c.s
      [] c.t = "int" -> StrOfNat(c.n)
      [] c.t = "nan" -> <<"n", "a", "n">>
      [] OTHER -> <<>>

(***************************************************************************)
(* clean_name: re.sub(r'\b(LTD|LLC|INC|CO|COMPANY|LIMITED|PRIVATE)\b\.?',  *)
(*                    '', name.upper()).strip()                            *)
(***************************************************************************)
SuffixTokens ==
    << <<"L", "T", "D">>,
       <<"L", "L", "C">>,
       <<"I", "N", "C">>,
       <<"C", "O">>,
       <<"C", "O", "M", "P", "A", "N", "Y">>,
       <<"L", "I", "M", "I", "T", "E", "D">>,
       <<"P", "R", "I", "V", "A", "T", "E">> >>

\* \b between positions i - 1 and i of s
WordBoundary(s, i) ==
    LET before == i > 1 /\ i - 1 <= Len(s) /\ IsWordChar(s[i - 1])
        after == i >= 1 /\ i <= Len(s) /\ IsWordChar(s[i])
    IN  before # after

\* the alternative tok matches s at position i, with \b on both sides
TokenAt(s, i, tok) ==
    /\ i + Len(tok) - 1 <= Len(s)
    /\ SubSeq(s, i, i + Len(tok) - 1) = tok
    /\ WordBoundary(s, i)
    /\ WordBoundary(s, i + Len(tok))

\* the alternatives that match at i, in the order the regex tries them
MatchingTokens(s, i) == {k \in DOMAIN SuffixTokens : TokenAt(s, i, SuffixTokens[k])}

\* the position after the match that starts at i (the token, then \.?)
MatchEnd(s, i) ==
    LET k == CHOOSE k \in MatchingTokens(s, i) : \A j \in MatchingTokens(s, i) : k <= j
        e == i + Len(SuffixTokens[k])
    IN  IF e <= Len(s) /\ s[e] = "." THEN e + 1 ELSE e

\* re.sub(pattern, '', s) scanning from position i
RECURSIVE SubSuffixes(_, _)
SubSuffixes(s, i) ==
    IF i > Len(s) THEN <<>>
    ELSE IF MatchingTokens(s, i) # {} THEN SubSuffixes(s, MatchEnd(s, i))
    ELSE <<s[i]>> \o SubSuffixes(s, i + 1)

clean_name(name) == strip(SubSuffixes(upper(name), 1))

(***************************************************************************)
(* determine_buyer                                                         *)
(***************************************************************************)
Unknown == <<"U", "n", "k", "n", "o", "w", "n">>

\* str(row[col]).strip() if pd.notna(row[col]) else ''
StrippedOrEmpty(c) == IF notna(c) THEN strip(str(c)) ELSE <<>>

\* the domestic competitor tried before the international one
determine_buyer_DomesticFirst(row) ==
    LET shipper == StrippedOrEmpty(row["Shipper Declared"])
        intl_comp == StrippedOrEmpty(row["International Competitor"])
        dom_comp == StrippedOrEmpty(row["Domestic Competitor"])
        shipper_clean == clean_name(shipper)
        intl_clean == clean_name(intl_comp)
        dom_clean == clean_name(dom_comp)
    IN  IF dom_comp # <<>> /\ dom_clean # shipper_clean THEN dom_comp
        ELSE IF intl_comp # <<>> /\ intl_clean # shipper_clean THEN intl_comp
        ELSE IF intl_comp # <<>> THEN intl_comp
        ELSE IF dom_comp # <<>> THEN dom_comp
        ELSE Unknown

\* the international competitor taken without comparing it to the shipper
determine_buyer_NoComparison(row) ==
    LET intl_comp == StrippedOrEmpty(row["International Competitor"])
        dom_comp == StrippedOrEmpty(row["Domestic Competitor"])
    IN  IF intl_comp # <<>> THEN intl_comp
        ELSE IF dom_comp # <<>> THEN dom_comp
        ELSE Unknown

determine_buyer(row) ==
    LET shipper == StrippedOrEmpty(row["Shipper Declared"])
        intl_comp == StrippedOrEmpty(row["International Competitor"])
        dom_comp == StrippedOrEmpty(row["Domestic Competitor"])
        shipper_clean == clean_name(shipper)
        intl_clean == clean_name(intl_comp)
        dom_clean == clean_name(dom_comp)
    IN  IF intl_comp # <<>> /\ intl_clean # shipper_clean THEN intl_comp
        ELSE IF dom_comp # <<>> /\ dom_clean # shipper_clean THEN dom_comp
        ELSE IF intl_comp # <<>> THEN intl_comp
        ELSE IF dom_comp # <<>> THEN dom_comp
        ELSE Unknown

(***************************************************************************)
(* Dates: datetime.strptime(s, '%m/%d/%Y') and                             *)
(* pd.to_datetime(col, format='%m/%d/%Y', errors='coerce').                *)
(***************************************************************************)
IsLeap(y) == (y % 4 = 0 /\ y % 100 # 0) \/ y % 400 = 0

DaysInMonth(y, m) ==
    IF m = 2 THEN (IF IsLeap(y) THEN 29 ELSE 28)
    ELSE IF m \in {4, 6, 9, 11} THEN 30 ELSE 31

\* the directive %m: 1[0-2]|0[1-9]|[1-9]
MonthField(s) ==
    /\ Len(s) \in {1, 2}
    /\ AllDigits(s)
    /\ NatOfStr(s) \in 1..12

\* the directive %d: 3[0-1]|[1-2]\d|0[1-9]|[1-9]| [1-9]
DayField(s) ==
    \/ Len(s) \in {1, 2} /\ AllDigits(s) /\ NatOfStr(s) \in 1..31
    \/ Len(s) = 2 /\ s[1] = " " /\ IsDigit(s[2]) /\ s[2] # "0"

\* the directive %Y: \d\d\d\d
YearField(s) == Len(s) = 4 /\ AllDigits(s)

\* no date: the None of parse_date_simple, the NaT of pandas
NoDate == NaN

\* strptime with the format %m/%d/%Y: the date, or NoDate where it raises ValueError
strptime(s) ==
    LET slashes == {i \in DOMAIN s : s[i] = "/"}
    IN  IF Cardinality(slashes) # 2 THEN NoDate
        ELSE LET p1 == CHOOSE i \in slashes : \A j \in slashes : i <= j
                 p2 == CHOOSE i \in slashes : \A j \in slashes : j <= i
                 mm == SubSeq(s, 1, p1 - 1)
                 dd == SubSeq(s, p1 + 1, p2 - 1)
                 yy == SubSeq(s, p2 + 1, Len(s))
             IN  IF ~(MonthField(mm) /\ DayField(dd) /\ YearField(yy)) THEN NoDate
                 ELSE LET y == NatOfStr(yy)
                          m == NatOfStr(mm)
                          d == NatOfStr(lstrip(dd))
                      IN  IF y >= 1 /\ d <= DaysInMonth(y, m)
                          THEN DateCell(y, m, d) ELSE NoDate

\* a truthy Python value: not None, not the empty string
Truthy(v) == v.t = "str" /\ v.s # <<>>

parse_date_simple(date_string) ==
    IF ~Truthy(date_string) THEN NoDate ELSE strptime(strip(date_string.s))

\* one cell of pd.to_datetime(df['Date'], format='%m/%d/%Y', errors='coerce')
to_datetime(c) ==
    CASE c.t = "date" -> c
      [] c.t = "str" -> strptime(c.s)
      [] OTHER -> NoDate

\* one cell of pd.to_numeric(col, errors='coerce')
to_numeric(c) ==
    CASE c.t = "int" -> c
      [] c.t = "str" /\ c.s # <<>> /\ AllDigits(c.s) -> IntCell(NatOfStr(c.s))
      [] OTHER -> NaN

(***************************************************************************)
(* load_data                                                               *)
(***************************************************************************)
SheetColumns ==
    {"Date", "Shipper Declared", "International Competitor", "Domestic Competitor",
     "HS Code", "Country of Origin", "Category", "Metric Tons",
     "Total calculated value ($)", "Val/KG ($)"}

FrameColumns == SheetColumns \cup {"Buyer", "Seller"}

NumericColumns == {"Metric Tons", "Total calculated value ($)", "Val/KG ($)"}

target_hs_codes ==
    << <<"8", "5", "4", "4", "4", "2">>,
       <<"8", "5", "4", "4", "4", "9">>,
       <<"8", "5", "4", "4", "6", "0">>,
       <<"7", "4", "0", "3", "1", "1">> >>

\* lines 35-70: the columns of one row after conversion
PreprocessRow(row) ==
    [c \in FrameColumns |->
        CASE c = "Date" -> to_datetime(row["Date"])
          [] c = "Buyer" -> TextCell(determine_buyer(row))
          [] c = "Seller" -> row["Shipper Declared"]
          [] c \in NumericColumns -> to_numeric(row[c])
          [] OTHER -> row[c]]

\* isin() on the raw cells, without astype(str)
IsTargetHSRaw(r) == r["HS Code"] \in {TextCell(code) : code \in Range(target_hs_codes)}

\* df[df['HS Code'].astype(str).isin(target_hs_codes)], one row
IsTargetHS(r) == str(r["HS Code"]) \in Range(target_hs_codes)

\* the frame load_data returns; an unreadable workbook raises, and the
\* except branch returns the empty frame
LoadFrame(book) ==
    IF ~book.readable THEN <<>>
    ELSE SelectSeq([i \in DOMAIN book.rows |-> PreprocessRow(book.rows[i])], IsTargetHS)

(***************************************************************************)
(* The filter inputs of the layout and the values they hold.               *)
(***************************************************************************)
DateInputs == {"start-date", "end-date"}

Dropdowns ==
    {"buyer-filter", "seller-filter", "hs-code-filter", "country-filter", "category-filter"}

FilterInputs == DateInputs \cup Dropdowns

\* Python's None
None == [t |-> "none", s |-> <<>>, n |-> 0]

EmptyString == TextCell(<<>>)

\* the value= of the components in the layout
InitialValue == [c \in FilterInputs |-> IF c \in DateInputs THEN EmptyString ELSE None]

\* the options=[] of the dropdowns in the layout
InitialOptions == [c \in Dropdowns |-> <<>>]

ResetButtons ==
    {"start-date-reset", "end-date-reset", "buyer-reset", "seller-reset", "hs-reset",
     "country-reset", "category-reset"}

GoButtons ==
    {"date-go-btn", "buyer-go-btn", "seller-go-btn", "hs-go-btn", "country-go-btn",
     "category-go-btn"}

GlobalReset == "global-reset-btn"

Buttons == ResetButtons \cup GoButtons \cup {GlobalReset}

(***************************************************************************)
(* handle_resets: the seven values it returns, given the button that       *)
(* triggered it and the seven State values.                                *)
(***************************************************************************)
\* x if x else ''
OrEmpty(x) == IF Truthy(x) THEN x ELSE EmptyString

\* the buyer branch returning None in the seller position too
handle_resets_BuyerClearsSeller(button_id, st) ==
    LET current == [st EXCEPT !["start-date"] = OrEmpty(st["start-date"]),
                              !["end-date"] = OrEmpty(st["end-date"])]
    IN  CASE button_id = "global-reset-btn" -> InitialValue
          [] button_id = "start-date-reset" -> [current EXCEPT !["start-date"] = EmptyString]
          [] button_id = "end-date-reset" -> [current EXCEPT !["end-date"] = EmptyString]
          [] button_id = "buyer-reset" ->
                 [current EXCEPT !["buyer-filter"] = None, !["seller-filter"] = None]
          [] button_id = "seller-reset" -> [current EXCEPT !["seller-filter"] = None]
          [] button_id = "hs-reset" -> [current EXCEPT !["hs-code-filter"] = None]
          [] button_id = "country-reset" -> [current EXCEPT !["country-filter"] = None]
          [] button_id = "category-reset" -> [current EXCEPT !["category-filter"] = None]
          [] OTHER -> current

\* the global branch returning the current dates
handle_resets_GlobalKeepsDates(button_id, st) ==
    LET current == [st EXCEPT !["start-date"] = OrEmpty(st["start-date"]),
                              !["end-date"] = OrEmpty(st["end-date"])]
    IN  CASE button_id = "global-reset-btn" ->
                 [c \in FilterInputs |-> IF c \in DateInputs THEN current[c] ELSE None]
          [] button_id = "start-date-reset" -> [current EXCEPT !["start-date"] = EmptyString]
          [] button_id = "end-date-reset" -> [current EXCEPT !["end-date"] = EmptyString]
          [] button_id = "buyer-reset" -> [current EXCEPT !["buyer-filter"] = None]
          [] button_id = "seller-reset" -> [current EXCEPT !["seller-filter"] = None]
          [] button_id = "hs-reset" -> [current EXCEPT !["hs-code-filter"] = None]
          [] button_id = "country-reset" -> [current EXCEPT !["country-filter"] = None]
          [] button_id = "category-reset" -> [current EXCEPT !["category-filter"] = None]
          [] OTHER -> current

handle_resets(button_id, st) ==
    LET current == [st EXCEPT !["start-date"] = OrEmpty(st["start-date"]),
                              !["end-date"] = OrEmpty(st["end-date"])]
    IN  CASE button_id = "global-reset-btn" -> InitialValue
          [] button_id = "start-date-reset" -> [current EXCEPT !["start-date"] = EmptyString]
          [] button_id = "end-date-reset" -> [current EXCEPT !["end-date"] = EmptyString]
          [] button_id = "buyer-reset" -> [current EXCEPT !["buyer-filter"] = None]
          [] button_id = "seller-reset" -> [current EXCEPT !["seller-filter"] = None]
          [] button_id = "hs-reset" -> [current EXCEPT !["hs-code-filter"] = None]
          [] button_id = "country-reset" -> [current EXCEPT !["country-filter"] = None]
          [] button_id = "category-reset" -> [current EXCEPT !["category-filter"] = None]
          [] OTHER -> current

(***************************************************************************)
(* The filter steps of update_dropdown_options and update_dashboard.       *)
(***************************************************************************)
\* a NaT date passes the start date
FilterStartDateKeepsNaT(frame, start_date) ==
    IF ~Truthy(start_date) THEN frame
    ELSE LET start_parsed == parse_date_simple(start_date)
         IN  IF start_parsed = NoDate THEN frame
             ELSE SelectSeq(frame,
                      LAMBDA r : ~notna(r["Date"]) \/ r["Date"].n >= start_parsed.n)

\* frame[frame['Date'].dt.date >= start_parsed]; a NaT date compares False
FilterStartDate(frame, start_date) ==
    IF ~Truthy(start_date) THEN frame
    ELSE LET start_parsed == parse_date_simple(start_date)
         IN  IF start_parsed = NoDate THEN frame
             ELSE SelectSeq(frame,
                      LAMBDA r : notna(r["Date"]) /\ r["Date"].n >= start_parsed.n)

\* the end date taken as exclusive
FilterEndDateExclusive(frame, end_date) ==
    IF ~Truthy(end_date) THEN frame
    ELSE LET end_parsed == parse_date_simple(end_date)
         IN  IF end_parsed = NoDate THEN frame
             ELSE SelectSeq(frame,
                      LAMBDA r : notna(r["Date"]) /\ r["Date"].n < end_parsed.n)

\* frame[frame['Date'].dt.date <= end_parsed]
FilterEndDate(frame, end_date) ==
    IF ~Truthy(end_date) THEN frame
    ELSE LET end_parsed == parse_date_simple(end_date)
         IN  IF end_parsed = NoDate THEN frame
             ELSE SelectSeq(frame,
                      LAMBDA r : notna(r["Date"]) /\ r["Date"].n <= end_parsed.n)

\* the mask taken over df instead of the frame filtered so far
FilterColumnOfDf(frame, column, selected) ==
    IF ~Truthy(selected) THEN frame
    ELSE SelectSeq(df, LAMBDA r : str(r[column]) = str(selected))

\* the mask taken from the rows of df at the same positions
FilterColumnByPosition(frame, column, selected) ==
    IF ~Truthy(selected) THEN frame
    ELSE LET kept == {i \in DOMAIN frame : i <= Len(df) /\ str(df[i][column]) = str(selected)}
         IN  SelectSeq(frame, LAMBDA r : \E i \in kept : frame[i] = r)

\* frame[frame[column].astype(str) == str(selected)]
FilterColumn(frame, column, selected) ==
    IF ~Truthy(selected) THEN frame
    ELSE SelectSeq(frame, LAMBDA r : str(r[column]) = str(selected))

ColumnOf(input) ==
    CASE input = "buyer-filter" -> "Buyer"
      [] input = "seller-filter" -> "Seller"
      [] input = "hs-code-filter" -> "HS Code"
      [] input = "country-filter" -> "Country of Origin"
      [] input = "category-filter" -> "Category"

\* the category step left out
DropdownFilteredNoCategory(frame, st) ==
    LET f1 == FilterStartDate(frame, st["start-date"])
        f2 == FilterEndDate(f1, st["end-date"])
        f3 == FilterColumn(f2, "Buyer", st["buyer-filter"])
        f4 == FilterColumn(f3, "Seller", st["seller-filter"])
        f5 == FilterColumn(f4, "HS Code", st["hs-code-filter"])
    IN  FilterColumn(f5, "Country of Origin", st["country-filter"])

\* lines 638-665
DropdownFiltered(frame, st) ==
    LET f1 == FilterStartDate(frame, st["start-date"])
        f2 == FilterEndDate(f1, st["end-date"])
        f3 == FilterColumn(f2, "Buyer", st["buyer-filter"])
        f4 == FilterColumn(f3, "Seller", st["seller-filter"])
        f5 == FilterColumn(f4, "HS Code", st["hs-code-filter"])
        f6 == FilterColumn(f5, "Country of Origin", st["country-filter"])
    IN  FilterColumn(f6, "Category", st["category-filter"])

\* lines 725-752
DashboardFiltered(frame, st) ==
    LET f1 == FilterStartDate(frame, st["start-date"])
        f2 == FilterEndDate(f1, st["end-date"])
        f3 == FilterColumn(f2, "Buyer", st["buyer-filter"])
        f4 == FilterColumn(f3, "Seller", st["seller-filter"])
        f5 == FilterColumn(f4, "HS Code", st["hs-code-filter"])
        f6 == FilterColumn(f5, "Country of Origin", st["country-filter"])
    IN  FilterColumn(f6, "Category", st["category-filter"])

(***************************************************************************)
(* update_dropdown_options                                                 *)
(***************************************************************************)
\* Series.dropna()
dropna(cells) == SelectSeq(cells, notna)

\* Series.unique(): the distinct values, in order of first appearance
RECURSIVE unique(_)
unique(cells) ==
    IF cells = <<>> THEN <<>>
    ELSE LET front == unique(SubSeq(cells, 1, Len(cells) - 1))
             x == cells[Len(cells)]
         IN  IF x \in Range(front) THEN front ELSE Append(front, x)

\* sorted() of a list of str
RECURSIVE sorted(_)
sorted(strs) ==
    IF strs = <<>> THEN <<>>
    ELSE LET front == sorted(SubSeq(strs, 1, Len(strs) - 1))
             x == strs[Len(strs)]
             k == Cardinality({i \in DOMAIN front : ~StrLess(x, front[i])})
         IN  SubSeq(front, 1, k) \o <<x>> \o SubSeq(front, k + 1, Len(front))

Column(frame, column) == [i \in DOMAIN frame |-> frame[i][column]]

StrEach(cells) == [i \in DOMAIN cells |-> str(cells[i])]

\* the option list without sorted()
ColumnOptionsUnsorted(frame, column) == StrEach(unique(dropna(Column(frame, column))))

\* the option list of Seller, Country of Origin, Category
ColumnOptions(frame, column) == sorted(StrEach(unique(dropna(Column(frame, column)))))

\* the option list of Buyer: str(buyer) != 'Unknown'
BuyerOptions(frame) ==
    sorted(SelectSeq(StrEach(unique(dropna(Column(frame, "Buyer")))),
                     LAMBDA b : b # Unknown))

\* the option list of HS Code: the target codes present in the filtered frame
HSOptions(frame) ==
    LET available_hs == Range(unique(StrEach(Column(frame, "HS Code"))))
    IN  sorted(SelectSeq(target_hs_codes, LAMBDA code : code \in available_hs))

\* lines 667-690: the five option lists of a filtered frame
OptionLists(filtered_df) ==
    [c \in Dropdowns |->
        CASE c = "buyer-filter" -> BuyerOptions(filtered_df)
          [] c = "hs-code-filter" -> HSOptions(filtered_df)
          [] OTHER -> ColumnOptions(filtered_df, ColumnOf(c))]

update_dropdown_options(frame, st) ==
    IF frame = <<>> THEN InitialOptions ELSE OptionLists(DropdownFiltered(frame, st))

(***************************************************************************)
(* update_dashboard: the metrics, the figures and the table.                *)
(***************************************************************************)
\* Series.sum(): NaN skipped, 0 for an empty or all-NaN column
RECURSIVE sum(_)
sum(cells) ==
    IF cells = <<>> THEN 0
    ELSE (IF notna(Head(cells)) THEN Head(cells).n ELSE 0) + sum(Tail(cells))

\* the sum divided by the number of rows, NaN rows included
meanOverAllRows(cells) ==
    IF cells = <<>> THEN [isna |-> TRUE, num |-> 0, den |-> 0]
    ELSE [isna |-> FALSE, num |-> sum(cells), den |-> Len(cells)]

\* Series.mean(): the exact quotient num/den over the non-NaN values; NaN if none
mean(cells) ==
    LET present == dropna(cells)
    IN  IF present = <<>> THEN [isna |-> TRUE, num |-> 0, den |-> 0]
        ELSE [isna |-> FALSE, num |-> sum(present), den |-> Len(present)]

\* the four metric cards; "N/A" is shown where the mean is NaN
Metrics(filtered_df) ==
    LET avg_price_per_kg == mean(Column(filtered_df, "Val/KG ($)"))
    IN  [total_transactions |-> Len(filtered_df),
         total_value |-> sum(Column(filtered_df, "Total calculated value ($)")),
         total_volume |-> sum(Column(filtered_df, "Metric Tons")),
         avg_price_per_kg |-> avg_price_per_kg,
         avg_card |-> IF avg_price_per_kg.isna THEN "N/A" ELSE "$avg"]

\* the first n entries
head(series, n) == SubSeq(series, 1, IF n < Len(series) THEN n ELSE Len(series))

\* the group keys of groupby(column): the non-null values, sorted
GroupKeys(frame, column) == sorted(StrEach(unique(dropna(Column(frame, column)))))

\* the rows of one group
GroupRows(frame, by, key) == SelectSeq(frame, LAMBDA r : notna(r[by]) /\ str(r[by]) = key)

\* the groups in the order of their first record: groupby(sort=False)
groupby_sum_unsorted(frame, by, column) ==
    LET keys == StrEach(unique(dropna(Column(frame, by))))
    IN  [i \in DOMAIN keys |->
            [key |-> keys[i], val |-> sum(Column(GroupRows(frame, by, keys[i]), column))]]

\* frame.groupby(by)[column].sum(): one entry per non-null key, in key order
groupby_sum(frame, by, column) ==
    LET keys == GroupKeys(frame, by)
    IN  [i \in DOMAIN keys |->
            [key |-> keys[i], val |-> sum(Column(GroupRows(frame, by, keys[i]), column))]]

\* the entries by descending value, entries of equal value in their order in
\* the series
RECURSIVE SortDescending(_)
SortDescending(series) ==
    IF series = <<>> THEN <<>>
    ELSE LET front == SortDescending(SubSeq(series, 1, Len(series) - 1))
             x == series[Len(series)]
             k == Cardinality({i \in DOMAIN front : front[i].val >= x.val})
         IN  SubSeq(front, 1, k) \o <<x>> \o SubSeq(front, k + 1, Len(front))

\* Series.nlargest(n), keep='first'
nlargest(series, n) == head(SortDescending(series), n)

\* Series.value_counts(): the non-null values with their frequency, by
\* descending frequency
value_counts(cells) ==
    LET keys == StrEach(unique(dropna(cells)))
    IN  SortDescending([i \in DOMAIN keys |->
            [key |-> keys[i],
             val |-> Cardinality({j \in DOMAIN cells :
                                     notna(cells[j]) /\ str(cells[j]) = keys[i]})]])

\* the dates of the frame, ascending, without NaT
RECURSIVE SortedDates(_)
SortedDates(dates) ==
    IF dates = {} THEN <<>>
    ELSE LET d == CHOOSE d \in dates : \A e \in dates : e <= d
         IN  Append(SortedDates(dates \ {d}), d)

\* filtered_df.groupby(filtered_df['Date'].dt.date).agg(sum, sum).reset_index()
DailyStats(filtered_df) ==
    LET days == SortedDates({r["Date"].n : r \in {r \in Range(filtered_df) : notna(r["Date"])}})
        OfDay(d) == SelectSeq(filtered_df, LAMBDA r : notna(r["Date"]) /\ r["Date"].n = d)
    IN  [i \in DOMAIN days |->
            [Date |-> days[i],
             total_value |-> sum(Column(OfDay(days[i]), "Total calculated value ($)")),
             metric_tons |-> sum(Column(OfDay(days[i]), "Metric Tons"))]]

\* nlargest(10), head(5), head(10)
TopBuyers == 10

TopSellers == 10

TopCategories == 5

TopCountries == 10

\* the data of the five figures
Figures(filtered_df) ==
    [top_buyers |-> nlargest(groupby_sum(filtered_df, "Buyer", "Metric Tons"), TopBuyers),
     top_sellers |-> nlargest(groupby_sum(filtered_df, "Seller",
                                          "Total calculated value ($)"), TopSellers),
     category_dist |-> head(value_counts(Column(filtered_df, "Category")), TopCategories),
     country_dist |-> head(value_counts(Column(filtered_df, "Country of Origin")),
                           TopCountries),
     daily_stats |-> DailyStats(filtered_df)]

\* go.Figure(): a figure without data
EmptyFigures ==
    [top_buyers |-> <<>>, top_sellers |-> <<>>, category_dist |-> <<>>,
     country_dist |-> <<>>, daily_stats |-> <<>>]

\* the outputs when df.empty: "No data available", no figures, no table
NoDataView ==
    [no_data |-> TRUE,
     metrics |-> [total_transactions |-> 0, total_value |-> 0, total_volume |-> 0,
                  avg_price_per_kg |-> [isna |-> TRUE, num |-> 0, den |-> 0],
                  avg_card |-> ""],
     figures |-> EmptyFigures,
     table_data |-> <<>>]

\* without the df.empty test of line 721
update_dashboard_Unguarded(frame, st) ==
    LET filtered_df == DashboardFiltered(frame, st)
    IN  [no_data |-> FALSE,
         metrics |-> Metrics(filtered_df),
         figures |-> IF filtered_df # <<>> THEN Figures(filtered_df) ELSE EmptyFigures,
         table_data |-> filtered_df]

update_dashboard(frame, st) ==
    IF frame = <<>> THEN NoDataView
    ELSE LET filtered_df == DashboardFiltered(frame, st)
         IN  [no_data |-> FALSE,
              metrics |-> Metrics(filtered_df),
              figures |-> IF filtered_df # <<>> THEN Figures(filtered_df) ELSE EmptyFigures,
              table_data |-> filtered_df]

(***************************************************************************)
(* Workbooks: the rows pd.read_excel returns for the sheet 'Data'.         *)
(***************************************************************************)
Row(date, shipper, intl, dom, hs, country, category, tons, total, valkg) ==
    [c \in SheetColumns |->
        CASE c = "Date" -> date
          [] c = "Shipper Declared" -> shipper
          [] c = "International Competitor" -> intl
          [] c = "Domestic Competitor" -> dom
          [] c = "HS Code" -> hs
          [] c = "Country of Origin" -> country
          [] c = "Category" -> category
          [] c = "Metric Tons" -> tons
          [] c = "Total calculated value ($)" -> total
          [] c = "Val/KG ($)" -> valkg]

AcmeLtd == <<"A", "c", "m", "e", " ", "L", "t", "d">>

AcmeLimited == <<"A", "c", "m", "e", " ", "L", "i", "m", "i", "t", "e", "d">>

Acme == <<"A", "c", "m", "e">>

BetaInc == <<"B", "e", "t", "a", " ", "I", "n", "c">>

Jan14 == <<"0", "1", "/", "1", "4", "/", "2", "0", "2", "4">>

Jan15 == <<"0", "1", "/", "1", "5", "/", "2", "0", "2", "4">>

Jan16 == <<"0", "1", "/", "1", "6", "/", "2", "0", "2", "4">>

\* not MM/DD/YYYY: month 13, day 40
BadDate == <<"1", "3", "/", "4", "0", "/", "2", "0", "2", "4">>

IsoDate == <<"2", "0", "2", "4", "-", "0", "1", "-", "1", "5">>

Cable == <<"C", "a", "b", "l", "e">>

Wire == <<"W", "i", "r", "e">>

China == <<"C", "N">>

Germany == <<"D", "E">>

\* the rows a workbook is made of
SheetRows ==
    << Row(TextCell(Jan15), TextCell(AcmeLtd), TextCell(AcmeLimited), TextCell(BetaInc),
           IntCell(854442), TextCell(China), TextCell(Cable),
           IntCell(100), IntCell(50), IntCell(2)),
       Row(TextCell(Jan16), TextCell(BetaInc), NaN, NaN,
           TextCell(target_hs_codes[2]), TextCell(Germany), NaN,
           NaN, IntCell(70), NaN),
       Row(TextCell(IsoDate), NaN, TextCell(Acme), NaN,
           TextCell(target_hs_codes[4]), TextCell(China), TextCell(Wire),
           TextCell(<<"5", "0">>), TextCell(<<"$", "9">>), IntCell(5)),
       Row(TextCell(Jan14), TextCell(AcmeLtd), TextCell(<<" ">>), TextCell(BetaInc),
           IntCell(854442), TextCell(Germany), TextCell(Cable),
           IntCell(30), IntCell(20), IntCell(3)),
       Row(TextCell(Jan15), TextCell(Acme), TextCell(BetaInc), NaN,
           IntCell(999999), TextCell(China), TextCell(Wire),
           IntCell(10), IntCell(10), IntCell(1)) >>

\* the most rows in a workbook
MaxRows == 3

\* the rows of SheetRows at the positions I, in the order of SheetRows
RECURSIVE RowsAt(_)
RowsAt(I) ==
    IF I = {} THEN <<>>
    ELSE LET i == CHOOSE i \in I : \A j \in I : j <= i
         IN  Append(RowsAt(I \ {i}), SheetRows[i])

Unreadable == [readable |-> FALSE, rows |-> <<>>]

Workbooks ==
    {Unreadable} \cup
    {[readable |-> TRUE, rows |-> RowsAt(I)] :
        I \in {J \in SUBSET DOMAIN SheetRows : Cardinality(J) <= MaxRows}}

(***************************************************************************)
(* The state: the workbook on disk, the module-level frame df, the values  *)
(* and option lists of the filter components in the browser, the outputs   *)
(* of update_dashboard on the page, and the callback requests in flight.   *)
(***************************************************************************)
BlankView == [NoDataView EXCEPT !.no_data = FALSE]

NoStep == [event |-> "none", cb |-> "", button |-> "", state |-> InitialValue]

Start ==
    /\ df = <<>>
    /\ pc = "start"
    /\ value = InitialValue
    /\ options = InitialOptions
    /\ view = [out |-> "layout", shown |-> BlankView]
    /\ pending = {}
    /\ last = NoStep

\* df = load_data(), at import
load_data ==
    /\ pc = "start"
    /\ df' = LoadFrame(xlsx)
    /\ pc' = "loaded"
    /\ last' = [NoStep EXCEPT !.event = "load"]
    /\ UNCHANGED <<xlsx, value, options, view, pending>>

(***************************************************************************)
(* The callbacks as the server computes them for one request: the State    *)
(* values come with the request.                                           *)
(***************************************************************************)
Callbacks == {"handle_resets", "update_dropdown_options", "update_dashboard"}

\* every button an Input of every callback
TriggeredByAny(button) == Callbacks

\* the callbacks that have the button as an Input
TriggeredBy(button) ==
    IF button \in ResetButtons THEN {"handle_resets"}
    ELSE IF button \in GoButtons THEN {"update_dropdown_options", "update_dashboard"}
    ELSE Callbacks

Request(cb, button, st) == [cb |-> cb, button |-> button, state |-> st]

\* the page is opened and no callback has prevent_initial_call
OpenPageRunsAll ==
    /\ pc = "loaded"
    /\ pc' = "serving"
    /\ pending' = {Request(cb, "", value) : cb \in Callbacks}
    /\ last' = [NoStep EXCEPT !.event = "open"]
    /\ UNCHANGED <<xlsx, df, value, options, view>>

\* the page is opened: update_dashboard alone has no prevent_initial_call
OpenPage ==
    /\ pc = "loaded"
    /\ pc' = "serving"
    /\ pending' = {Request("update_dashboard", "", value)}
    /\ last' = [NoStep EXCEPT !.event = "open"]
    /\ UNCHANGED <<xlsx, df, value, options, view>>

\* The user acts on a settled page: no callback is in flight when a value is
\* typed or selected or a button is clicked.
Settled == pc = "serving" /\ pending = {}

\* the strings the user types into a date input
TypedDates == {<<>>, Jan16, BadDate}

TypeDate(input, s) ==
    /\ Settled
    /\ value[input] # TextCell(s)
    /\ value' = [value EXCEPT ![input] = TextCell(s)]
    /\ last' = [NoStep EXCEPT !.event = "type"]
    /\ UNCHANGED <<xlsx, df, pc, options, view, pending>>

\* the user picks one of the options the dropdown lists
SelectOption(input, i) ==
    /\ Settled
    /\ value[input] # TextCell(options[input][i])
    /\ value' = [value EXCEPT ![input] = TextCell(options[input][i])]
    /\ last' = [NoStep EXCEPT !.event = "select"]
    /\ UNCHANGED <<xlsx, df, pc, options, view, pending>>

\* clearable=True: the x of the dropdown
ClearOption(input) ==
    /\ Settled
    /\ value[input] # None
    /\ value' = [value EXCEPT ![input] = None]
    /\ last' = [NoStep EXCEPT !.event = "select"]
    /\ UNCHANGED <<xlsx, df, pc, options, view, pending>>

\* a click: every callback with the button as Input is requested, each with
\* the State values the components hold at the click
Click(button) ==
    /\ Settled
    /\ pending' = pending \cup {Request(cb, button, value) : cb \in TriggeredBy(button)}
    /\ last' = [NoStep EXCEPT !.event = "click", !.button = button]
    /\ UNCHANGED <<xlsx, df, pc, value, options, view>>

\* the inputs next to the go-button
InputsOf(button) ==
    CASE button = "date-go-btn" -> DateInputs
      [] button = "buyer-go-btn" -> {"buyer-filter"}
      [] button = "seller-go-btn" -> {"seller-filter"}
      [] button = "hs-go-btn" -> {"hs-code-filter"}
      [] button = "country-go-btn" -> {"country-filter"}
      [] button = "category-go-btn" -> {"category-filter"}
      [] OTHER -> FilterInputs

\* a go-button applies the inputs next to it only
RespondOwnDimension(req) ==
    LET own == [c \in FilterInputs |->
                   IF c \in InputsOf(req.button) THEN req.state[c] ELSE InitialValue[c]]
    IN  /\ pc # "start"
        /\ req \in pending
        /\ pending' = pending \ {req}
        /\ last' = [event |-> "response", cb |-> req.cb, button |-> req.button,
                    state |-> req.state]
        /\ CASE req.cb = "handle_resets" ->
                    /\ value' = handle_resets(req.button, req.state)
                    /\ UNCHANGED <<options, view>>
             [] req.cb = "update_dropdown_options" ->
                    /\ options' = update_dropdown_options(df, own)
                    /\ UNCHANGED <<value, view>>
             [] req.cb = "update_dashboard" ->
                    /\ view' = [out |-> "update_dashboard",
                                shown |-> update_dashboard(df, own)]
                    /\ UNCHANGED <<value, options>>
        /\ UNCHANGED <<xlsx, df, pc>>

\* the response of one request reaches the page and sets its Outputs
Respond(req) ==
    /\ pc # "start"
    /\ req \in pending
    /\ pending' = pending \ {req}
    /\ last' = [event |-> "response", cb |-> req.cb, button |-> req.button,
                state |-> req.state]
    /\ CASE req.cb = "handle_resets" ->
                /\ value' = handle_resets(req.button, req.state)
                /\ UNCHANGED <<options, view>>
         [] req.cb = "update_dropdown_options" ->
                /\ options' = update_dropdown_options(df, req.state)
                /\ UNCHANGED <<value, view>>
         [] req.cb = "update_dashboard" ->
                /\ view' = [out |-> "update_dashboard",
                            shown |-> update_dashboard(df, req.state)]
                /\ UNCHANGED <<value, options>>
    /\ UNCHANGED <<xlsx, df, pc>>

(***************************************************************************)
(* Spec: the dashboard in one browser session.                             *)
(***************************************************************************)
\* the workbooks of the session
SessionBooks == {Unreadable, [readable |-> TRUE, rows |-> SubSeq(SheetRows, 1, 2)]}

Init == xlsx \in SessionBooks /\ Start

Next ==
    \/ load_data
    \/ OpenPage
    \/ \E input \in DateInputs, s \in TypedDates : TypeDate(input, s)
    \/ \E input \in Dropdowns : \E i \in DOMAIN options[input] : SelectOption(input, i)
    \/ \E input \in Dropdowns : ClearOption(input)
    \/ \E button \in Buttons : Click(button)
    \/ \E req \in pending : Respond(req)

Spec == Init /\ [][Next]_vars

(***************************************************************************)
(* SpecRequest: the server answers the two requests of one go-button       *)
(* click, for any workbook and any State values the request may carry.     *)
(***************************************************************************)
RequestStates ==
    {[c \in FilterInputs |->
         CASE c = "start-date" -> TextCell(a)
           [] c = "end-date" -> TextCell(b)
           [] c = "buyer-filter" -> buyer
           [] c = "seller-filter" -> seller
           [] c = "hs-code-filter" -> hs
           [] c = "country-filter" -> country
           [] c = "category-filter" -> category] :
        a \in {<<>>, Jan15, BadDate},
        b \in {<<>>, Jan15, <<" ">>},
        buyer \in {None, TextCell(BetaInc), TextCell(Unknown)},
        seller \in {None, TextCell(AcmeLtd), TextCell(<<"n", "a", "n">>)},
        hs \in {None, TextCell(target_hs_codes[1])},
        country \in {None, TextCell(Germany)},
        category \in {None, EmptyString, TextCell(Cable)}}

InitRequest ==
    /\ xlsx \in Workbooks
    /\ df = <<>>
    /\ pc = "start"
    /\ value \in RequestStates
    /\ options = InitialOptions
    /\ view = [out |-> "layout", shown |-> BlankView]
    /\ pending = {Request(cb, "date-go-btn", value) : cb \in TriggeredBy("date-go-btn")}
    /\ last = NoStep

NextRequest ==
    \/ load_data
    \/ \E req \in pending : Respond(req)

SpecRequest == InitRequest /\ [][NextRequest]_vars

(***************************************************************************)
(* SpecBuyer: load_data on a one-row workbook, for any three names.        *)
(***************************************************************************)
\* the pieces names are built from
NameChunks == {<<"a">>, <<"C", "o">>, <<" ">>}

\* names with a period after a suffix, and the names of the examples
ExampleNames ==
    {<<"C", "o", ".">>, <<"a", " ", "C", "o", ".">>, Acme, AcmeLtd, AcmeLimited, BetaInc}

\* the most pieces in a name
MaxChunks == 2

RECURSIVE ChunkNames(_)
ChunkNames(n) ==
    IF n = 0 THEN {<<>>}
    ELSE ChunkNames(n - 1) \cup {q \o x : q \in ChunkNames(n - 1), x \in NameChunks}

NameCells == {NaN} \cup {TextCell(s) : s \in ChunkNames(MaxChunks) \cup ExampleNames}

InitBuyer ==
    /\ xlsx \in {[readable |-> TRUE,
                  rows |-> <<[SheetRows[1] EXCEPT !["Shipper Declared"] = shipper,
                                                  !["International Competitor"] = intl,
                                                  !["Domestic Competitor"] = dom]>>] :
                    shipper \in NameCells, intl \in NameCells, dom \in NameCells}
    /\ Start

NextBuyer == load_data

SpecBuyer == InitBuyer /\ [][NextBuyer]_vars

(***************************************************************************)
(* SpecChart: the server answers a go-button click for workbooks with more *)
(* buyers than the volume chart shows.                                     *)
(***************************************************************************)
\* the most rows in a workbook of SpecChart
ChartRows == 12

ChartBuyers ==
    << <<"a">>, <<"b">>, <<"c">>, <<"d">>, <<"e">>, <<"f">>, <<"g">>,
       <<"h">>, <<"i">>, <<"j">>, <<"k">>, <<"l">>, <<"m">> >>

ChartSellers == << <<"x">>, <<"y">>, <<"z">> >>

\* the tons and dollars of a row
Amounts == {50, 100, 150}

\* a workbook of n rows: the buyers in ascending or in descending order of
\* name, the last row's buyer possibly that of the first row again, one row
\* of 150 tons, the rows of some of 100 tons, the others of 50
ChartBook(n, ascending, again, most, some) ==
    [readable |-> TRUE,
     rows |-> [k \in 1..n |->
        LET b == IF again /\ k = n /\ n > 1 THEN (IF ascending THEN 1 ELSE n)
                 ELSE IF ascending THEN k ELSE n + 1 - k
            amount == IF k = most THEN 150 ELSE IF k \in some THEN 100 ELSE 50
        IN  Row(TextCell(Jan15), TextCell(ChartSellers[(b % 3) + 1]), NaN,
                TextCell(ChartBuyers[b]), IntCell(854442), TextCell(China),
                TextCell(Cable), IntCell(amount), IntCell(amount), NaN)]]

ChartBooks ==
    {ChartBook(n, ascending, again, most, some) :
        n \in {3, ChartRows}, ascending \in BOOLEAN, again \in BOOLEAN,
        most \in 1..3,
        some \in {S \in SUBSET (1..ChartRows) : Cardinality(S) <= 2}}

ChartStates ==
    {InitialValue, [InitialValue EXCEPT !["seller-filter"] = TextCell(ChartSellers[1])]}

InitChart ==
    /\ xlsx \in ChartBooks
    /\ df = <<>>
    /\ pc = "start"
    /\ value \in ChartStates
    /\ options = InitialOptions
    /\ view = [out |-> "layout", shown |-> BlankView]
    /\ pending = {Request(cb, "buyer-go-btn", value) : cb \in TriggeredBy("buyer-go-btn")}
    /\ last = NoStep

NextChart ==
    \/ load_data
    \/ \E req \in pending : Respond(req)

SpecChart == InitChart /\ [][NextChart]_vars

(***************************************************************************)
(* SpecDate: the server answers a click on the date go-button, for any     *)
(* workbook and the strings a user may type into the two date inputs.      *)
(***************************************************************************)
\* single-digit month
ShortJan15 == <<"1", "/", "1", "5", "/", "2", "0", "2", "4">>

\* blanks around the date
PaddedJan15 == <<" ">> \o Jan15 \o <<" ">>

\* two-digit year
Jan15Of24 == <<"0", "1", "/", "1", "5", "/", "2", "4">>

\* February has no 30th
Feb30 == <<"0", "2", "/", "3", "0", "/", "2", "0", "2", "4">>

\* the strings typed into a date input
DateStrings ==
    {<<>>, <<" ">>, Jan14, Jan15, Jan16, BadDate, IsoDate, Feb30, Jan15Of24,
     ShortJan15, PaddedJan15}

DateStates ==
    {[InitialValue EXCEPT !["start-date"] = TextCell(a),
                          !["end-date"] = TextCell(b),
                          !["country-filter"] = country] :
        a \in DateStrings, b \in DateStrings, country \in {None, TextCell(China)}}

InitDate ==
    /\ xlsx \in Workbooks
    /\ df = <<>>
    /\ pc = "start"
    /\ value \in DateStates
    /\ options = InitialOptions
    /\ view = [out |-> "layout", shown |-> BlankView]
    /\ pending = {Request(cb, "date-go-btn", value) : cb \in TriggeredBy("date-go-btn")}
    /\ last = NoStep

NextDate ==
    \/ load_data
    \/ \E req \in pending : Respond(req)

SpecDate == InitDate /\ [][NextDate]_vars

(***************************************************************************)
(* Properties of the filter pipeline (SpecRequest).                        *)
(***************************************************************************)
\* update_dashboard has answered with metrics and a table
DashboardShown == view.out = "update_dashboard" /\ ~view.shown.no_data

\* the request of the callback has been answered
Answered(cb) == pc # "start" /\ \A req \in pending : req.cb # cb

\* the inputs that hold a value
SetInputs(st) == {c \in FilterInputs : Truthy(st[c])}

\* one filter step, by the input it reads
ApplyStep(input, frame, st) ==
    CASE input = "start-date" -> FilterStartDate(frame, st[input])
      [] input = "end-date" -> FilterEndDate(frame, st[input])
      [] OTHER -> FilterColumn(frame, ColumnOf(input), st[input])

\* the pairs <<applied, frame>> reached by applying the steps of k of the
\* inputs, each once, in every possible order
RECURSIVE AfterSteps(_, _, _, _)
AfterSteps(k, inputs, frame, st) ==
    IF k = 0 THEN {<<{}, frame>>}
    ELSE LET before == AfterSteps(k - 1, inputs, frame, st)
         IN  UNION {{<<p[1] \cup {c}, ApplyStep(c, p[2], st)>> : c \in inputs \ p[1]} :
                        p \in before}

\* the frames that result from applying the steps of all the inputs, each once,
\* in every possible order
AnyOrderResults(inputs, frame, st) ==
    {p[2] : p \in AfterSteps(Cardinality(inputs), inputs, frame, st)}

\* C1: applying the set filter dimensions in any order yields the filtered
\* frame of the code's fixed order: the table of update_dashboard, and the
\* frame the option lists of update_dropdown_options are taken from
C1_FilterCommutativity ==
    /\ DashboardShown =>
          AnyOrderResults(SetInputs(value), df, value) = {view.shown.table_data}
    /\ Answered("update_dropdown_options") /\ df # <<>> =>
          \A f \in AnyOrderResults(SetInputs(value), df, value) : OptionLists(f) = options

\* three dimensions are set, two of them remove different rows, and a row
\* survives
C1_Witness ==
    /\ DashboardShown
    /\ Answered("update_dropdown_options")
    /\ Cardinality(SetInputs(value)) >= 3
    /\ view.shown.table_data # <<>>
    /\ \E a, b \in SetInputs(value) :
          /\ Len(ApplyStep(a, df, value)) < Len(df)
          /\ Len(ApplyStep(b, df, value)) < Len(df)
          /\ ApplyStep(a, df, value) # ApplyStep(b, df, value)

\* the date a bound parses to, where it is in effect
BoundInEffect(v) == parse_date_simple(v) # NoDate

\* the record matches every field of the state that is set
Survives(r, st) ==
    /\ BoundInEffect(st["start-date"]) =>
          notna(r["Date"]) /\ r["Date"].n >= parse_date_simple(st["start-date"]).n
    /\ BoundInEffect(st["end-date"]) =>
          notna(r["Date"]) /\ r["Date"].n <= parse_date_simple(st["end-date"]).n
    /\ \A c \in Dropdowns :
          (st[c] # None /\ st[c] # EmptyString) => str(r[ColumnOf(c)]) = str(st[c])

\* C2: the filtered frame holds exactly the records of df that match every set
\* field (dates inclusive, categorical fields equal as strings), in the order
\* of df; with every field unset it is df
C2_PureConjunction ==
    DashboardShown =>
        /\ view.shown.table_data = SelectSeq(df, LAMBDA r : Survives(r, value))
        /\ (\A c \in FilterInputs : value[c] \in {None, EmptyString}) =>
              view.shown.table_data = df

\* a record dated on the end date itself survives while another row is
\* removed by a categorical field
C2_Witness ==
    /\ DashboardShown
    /\ BoundInEffect(value["end-date"])
    /\ \E d \in Dropdowns : Truthy(value[d])
    /\ Len(view.shown.table_data) < Len(df)
    /\ \E i \in DOMAIN view.shown.table_data :
          view.shown.table_data[i]["Date"] = parse_date_simple(value["end-date"])

(***************************************************************************)
(* Properties of the resets (Spec).                                        *)
(***************************************************************************)
\* a value that imposes no filter: None or the empty string
IsUnset(v) == v \in {None, EmptyString}

\* the dimension a per-dimension reset button stands next to in the layout
DimensionOf(button) ==
    CASE button = "start-date-reset" -> "start-date"
      [] button = "end-date-reset" -> "end-date"
      [] button = "buyer-reset" -> "buyer-filter"
      [] button = "seller-reset" -> "seller-filter"
      [] button = "hs-reset" -> "hs-code-filter"
      [] button = "country-reset" -> "country-filter"
      [] button = "category-reset" -> "category-filter"

\* the last step was the response of handle_resets to the button
ResetApplied(button) ==
    last.event = "response" /\ last.cb = "handle_resets" /\ last.button = button

\* C3: after the reset of a dimension D, D is unset and each of the other six
\* inputs holds the value it held when the reset was pressed
C3_ResetIsolation ==
    \A button \in ResetButtons :
        ResetApplied(button) =>
            /\ IsUnset(value[DimensionOf(button)])
            /\ \A c \in FilterInputs \ {DimensionOf(button)} : value[c] = last.state[c]

\* buyer was reset while buyer, seller, country and a date were set
C3_Witness ==
    /\ ResetApplied("buyer-reset")
    /\ Truthy(last.state["buyer-filter"])
    /\ Truthy(value["country-filter"])
    /\ Truthy(value["seller-filter"])
    /\ Truthy(value["start-date"])

\* C4: the response to the global reset leaves all seven inputs unset, and
\* until it arrives they all hold the values they held at the click: no state
\* has only some of them cleared
C4_GlobalResetAtomic ==
    /\ ResetApplied(GlobalReset) => \A c \in FilterInputs : IsUnset(value[c])
    /\ \A req \in pending : req.cb = "handle_resets" => value = req.state

\* the global reset was applied to a state with both dates and two dropdowns set
C4_Witness ==
    /\ ResetApplied(GlobalReset)
    /\ Truthy(last.state["start-date"])
    /\ Truthy(last.state["end-date"])
    /\ Cardinality({c \in Dropdowns : Truthy(last.state[c])}) >= 2
    /\ \A c \in FilterInputs : IsUnset(value[c])

\* the three callbacks of a click on the global reset have all been answered
GlobalResetSettled ==
    /\ pending = {}
    /\ last.event = "response"
    /\ last.button = GlobalReset

\* C5: once the three callbacks of the global reset have been answered, the
\* option lists and the main view are those of the cleared inputs
C5_GlobalResetRecomputes ==
    GlobalResetSettled =>
        /\ \A c \in FilterInputs : IsUnset(value[c])
        /\ view.shown = update_dashboard(df, value)
        /\ options = update_dropdown_options(df, value)

(***************************************************************************)
(* Properties of the loader (SpecRequest, SpecBuyer).                      *)
(***************************************************************************)
\* the four codes of the allow-list
AllowList ==
    { <<"8", "5", "4", "4", "4", "2">>, <<"8", "5", "4", "4", "4", "9">>,
      <<"8", "5", "4", "4", "6", "0">>, <<"7", "4", "0", "3", "1", "1">> }

Allowed(cell) == str(cell) \in AllowList

\* C6: every record of df and of every filtered table has its HS code, as a
\* string, in the allow-list, and the loader keeps exactly the rows of the
\* workbook with such a code, dropping the others without failing
C6_AllowList ==
    pc # "start" =>
        /\ \A i \in DOMAIN df : Allowed(df[i]["HS Code"])
        /\ \A i \in DOMAIN view.shown.table_data : Allowed(view.shown.table_data[i]["HS Code"])
        /\ Column(df, "HS Code") = SelectSeq(Column(xlsx.rows, "HS Code"), Allowed)

\* a workbook with a row of another code and a row with an integer code, the
\* second of which is in the table
C6_Witness ==
    /\ DashboardShown
    /\ \E i \in DOMAIN xlsx.rows : ~Allowed(xlsx.rows[i]["HS Code"])
    /\ \E i \in DOMAIN view.shown.table_data : view.shown.table_data[i]["HS Code"].t = "int"
    /\ Len(df) < Len(xlsx.rows)

\* a field after trimming, a missing field as the empty string
Trimmed(cell) == IF cell = NaN THEN <<>> ELSE strip(str(cell))

\* the competitor is non-empty and normalizes differently from the shipper
Distinguishable(comp, shipper) == comp # <<>> /\ clean_name(comp) # clean_name(shipper)

\* the one row of the workbook has been loaded
RowLoaded == pc = "loaded" /\ Len(xlsx.rows) = 1 /\ Len(df) = 1

\* C7: the buyer is the first that applies of: the international competitor
\* if distinguishable from the shipper, the domestic competitor if
\* distinguishable, the international competitor if non-empty, the domestic
\* competitor if non-empty, "Unknown"; fields compared and returned trimmed
C7_BuyerPrecedence ==
    RowLoaded =>
        LET shipper == Trimmed(xlsx.rows[1]["Shipper Declared"])
            intl == Trimmed(xlsx.rows[1]["International Competitor"])
            dom == Trimmed(xlsx.rows[1]["Domestic Competitor"])
            buyer == df[1]["Buyer"]
            rule1 == Distinguishable(intl, shipper)
            rule2 == ~rule1 /\ Distinguishable(dom, shipper)
            rule3 == ~rule1 /\ ~rule2 /\ intl # <<>>
            rule4 == ~rule1 /\ ~rule2 /\ ~rule3 /\ dom # <<>>
        IN  /\ buyer.t = "str"
            /\ rule1 => buyer.s = intl
            /\ rule2 => buyer.s = dom
            /\ rule3 => buyer.s = intl
            /\ rule4 => buyer.s = dom
            /\ ~(rule1 \/ rule2 \/ rule3 \/ rule4) => buyer.s = Unknown
            /\ (shipper = AcmeLtd /\ intl = AcmeLimited /\ dom = BetaInc) => buyer.s = BetaInc
            /\ (shipper = Acme /\ intl = <<>> /\ dom = <<>>) => buyer.s = Unknown

\* shipper "Acme Ltd", international "Acme Limited", domestic "Beta Inc": the
\* international competitor is the shipper, the buyer is the domestic one
C7_Witness ==
    /\ RowLoaded
    /\ xlsx.rows[1]["Shipper Declared"] = TextCell(AcmeLtd)
    /\ xlsx.rows[1]["International Competitor"] = TextCell(AcmeLimited)
    /\ xlsx.rows[1]["Domestic Competitor"] = TextCell(BetaInc)
    /\ df[1]["Buyer"] = TextCell(BetaInc)

\* C8: if a competitor field is distinguishable from the shipper, the buyer's
\* normalized form differs from the normalized shipper
C8_BuyerNotShipper ==
    RowLoaded =>
        LET shipper == Trimmed(xlsx.rows[1]["Shipper Declared"])
            intl == Trimmed(xlsx.rows[1]["International Competitor"])
            dom == Trimmed(xlsx.rows[1]["Domestic Competitor"])
        IN  (Distinguishable(intl, shipper) \/ Distinguishable(dom, shipper)) =>
                clean_name(df[1]["Buyer"].s) # clean_name(shipper)

\* the international competitor is the shipper under another suffix, the
\* domestic one is distinguishable and becomes the buyer
C8_Witness ==
    /\ RowLoaded
    /\ LET shipper == Trimmed(xlsx.rows[1]["Shipper Declared"])
           intl == Trimmed(xlsx.rows[1]["International Competitor"])
           dom == Trimmed(xlsx.rows[1]["Domestic Competitor"])
       IN  /\ intl # <<>>
           /\ intl # shipper
           /\ clean_name(intl) = clean_name(shipper)
           /\ clean_name(shipper) # <<>>
           /\ Distinguishable(dom, shipper)
           /\ df[1]["Buyer"].s = dom

(***************************************************************************)
(* Properties of the option lists and the metrics (SpecRequest).           *)
(***************************************************************************)
\* the records of df that pass all the filters of the state
Passing(st) == SelectSeq(df, LAMBDA r : Survives(r, st))

\* the values a dimension's option list is to hold
Offered(c, st) ==
    {str(r[ColumnOf(c)]) : r \in {r \in Range(Passing(st)) : notna(r[ColumnOf(c)])}}
        \ (IF c = "buyer-filter" THEN {Unknown} ELSE {})

\* the list is strictly ascending: sorted and free of duplicates
StrictlySorted(list) ==
    \A i, j \in DOMAIN list : i < j => StrLess(list[i], list[j])

\* C9: the buyer, seller, country and category option lists are the sorted,
\* duplicate-free non-null values of the dimension over the records that pass
\* all active filters, the dimension's own included, without "Unknown" for
\* the buyer only; the records of an "Unknown" buyer stay in the table and in
\* the transaction count
C9_OptionNarrowing ==
    /\ Answered("update_dropdown_options") /\ df # <<>> =>
          \A c \in Dropdowns \ {"hs-code-filter"} :
              /\ Range(options[c]) = Offered(c, value)
              /\ StrictlySorted(options[c])
    /\ DashboardShown =>
          /\ \A r \in Range(Passing(value)) :
                r["Buyer"] = TextCell(Unknown) => r \in Range(view.shown.table_data)
          /\ view.shown.metrics.total_transactions = Len(Passing(value))

\* the country filter is set and its own list has narrowed to it, the seller
\* list holds two names that df lists in descending order, and a record of
\* an "Unknown" buyer is in the table but "Unknown" is not offered
C9_Witness ==
    /\ Answered("update_dropdown_options")
    /\ DashboardShown
    /\ Truthy(value["country-filter"])
    /\ options["country-filter"] = <<value["country-filter"].s>>
    /\ \E r \in Range(df) : str(r["Country of Origin"]) # value["country-filter"].s
    /\ Len(options["seller-filter"]) = 2
    /\ str(view.shown.table_data[1]["Seller"]) = options["seller-filter"][2]
    /\ \E r \in Range(view.shown.table_data) : r["Buyer"] = TextCell(Unknown)
    /\ options["buyer-filter"] # <<>>
    /\ Unknown \notin Range(options["buyer-filter"])

\* the sum of the non-null cells of a column
RECURSIVE SumOfPresent(_, _)
SumOfPresent(frame, column) ==
    IF frame = <<>> THEN 0
    ELSE LET x == frame[Len(frame)][column]
         IN  SumOfPresent(SubSeq(frame, 1, Len(frame) - 1), column) +
             (IF x = NaN THEN 0 ELSE x.n)

CountOfPresent(frame, column) == Cardinality({i \in DOMAIN frame : frame[i][column] # NaN})

\* C10: the count is the number of filtered records, the totals are the sums
\* of the non-null values (0 if none), the average is the mean of the
\* non-null Val/KG values, shown as N/A if there is none; the empty filtered
\* frame gives 0, 0, 0, N/A
C10_Summarize ==
    DashboardShown =>
        LET T == view.shown.table_data
            m == view.shown.metrics
            n == CountOfPresent(T, "Val/KG ($)")
        IN  /\ T = Passing(value)
            /\ m.total_transactions = Len(T)
            /\ m.total_value = SumOfPresent(T, "Total calculated value ($)")
            /\ m.total_volume = SumOfPresent(T, "Metric Tons")
            /\ n = 0 => m.avg_price_per_kg.isna /\ m.avg_card = "N/A"
            /\ n > 0 =>
                  /\ ~m.avg_price_per_kg.isna
                  /\ m.avg_card # "N/A"
                  /\ m.avg_price_per_kg.num = SumOfPresent(T, "Val/KG ($)")
                  /\ m.avg_price_per_kg.den = n
            /\ T = <<>> =>
                  /\ m.total_transactions = 0
                  /\ m.total_value = 0
                  /\ m.total_volume = 0
                  /\ m.avg_card = "N/A"

\* a filter is set, and the filtered frame holds a record without Val/KG and
\* without Metric Tons next to records that have them
C10_Witness ==
    /\ DashboardShown
    /\ SetInputs(value) # {}
    /\ Len(view.shown.table_data) < Len(df)
    /\ \E r \in Range(view.shown.table_data) : r["Val/KG ($)"] = NaN /\ r["Metric Tons"] = NaN
    /\ \E r \in Range(view.shown.table_data) : r["Val/KG ($)"] # NaN
    /\ view.shown.metrics.total_transactions = Len(view.shown.table_data)
    /\ view.shown.metrics.avg_price_per_kg.den < Len(view.shown.table_data)

(***************************************************************************)
(* Properties of the charts (SpecChart).                                   *)
(***************************************************************************)
\* the groups of the filtered frame: the non-null values of the key
GroupsOf(frame, by) == {str(r[by]) : r \in {r \in Range(frame) : notna(r[by])}}

\* the sum of the value over the records of the group
SumOfGroup(frame, by, key, column) ==
    SumOfPresent(SelectSeq(frame, LAMBDA r : r[by] # NaN /\ str(r[by]) = key), column)

\* the position of the first record of the group
FirstRecord(frame, by, key) ==
    CHOOSE i \in DOMAIN frame :
        /\ str(frame[i][by]) = key
        /\ \A j \in 1..(i - 1) : str(frame[j][by]) # key

\* the list holds the n groups of largest sum (all of them if there are fewer),
\* each once with its sum, in descending order of sum; Before(g, h) says which
\* of two groups of equal sum comes first
IsTopNBy(list, frame, by, column, n, Before(_, _)) ==
    LET groups == GroupsOf(frame, by)
        total(g) == SumOfGroup(frame, by, g, column)
        Precedes(g, h) == total(g) > total(h) \/ (total(g) = total(h) /\ Before(g, h))
        listed == {list[i].key : i \in DOMAIN list}
    IN  /\ Len(list) = (IF Cardinality(groups) < n THEN Cardinality(groups) ELSE n)
        /\ listed \subseteq groups
        /\ \A i \in DOMAIN list : list[i].val = total(list[i].key)
        /\ \A i, j \in DOMAIN list : i < j => Precedes(list[i].key, list[j].key)
        /\ \A g \in listed, h \in groups \ listed : Precedes(g, h)

\* buyers A (100 tons), B (50), C (150): C (150) and A (100) come first
ExampleTopTwo(list, frame) ==
    \A A, B, C \in GroupsOf(frame, "Buyer") :
        ( /\ GroupsOf(frame, "Buyer") = {A, B, C}
          /\ SumOfGroup(frame, "Buyer", A, "Metric Tons") = 100
          /\ SumOfGroup(frame, "Buyer", B, "Metric Tons") = 50
          /\ SumOfGroup(frame, "Buyer", C, "Metric Tons") = 150 )
        => head(list, 2) = << [key |-> C, val |-> 150], [key |-> A, val |-> 100] >>

\* C11 as stated: the volume and value charts hold the at most ten groups of
\* largest sum in descending order, of two groups of equal sum the one first
\* encountered in the record order first
C11_TopNByRecordOrder ==
    DashboardShown /\ view.shown.table_data # <<>> =>
        LET T == view.shown.table_data
        IN  /\ IsTopNBy(view.shown.figures.top_buyers, T, "Buyer", "Metric Tons", 10,
                        LAMBDA g, h : FirstRecord(T, "Buyer", g) < FirstRecord(T, "Buyer", h))
            /\ IsTopNBy(view.shown.figures.top_sellers, T, "Seller",
                        "Total calculated value ($)", 10,
                        LAMBDA g, h : FirstRecord(T, "Seller", g) < FirstRecord(T, "Seller", h))
            /\ ExampleTopTwo(view.shown.figures.top_buyers, T)

\* C11, amended: the volume and value charts hold the at most ten groups of
\* largest sum, each with the sum of its records, in descending order of sum;
\* of two groups of equal sum the one whose key sorts first comes first,
\* whatever the record order; buyers A (100), B (50), C (150) give C, A first
C11_TopNByKeyOrder ==
    DashboardShown /\ view.shown.table_data # <<>> =>
        LET T == view.shown.table_data
        IN  /\ IsTopNBy(view.shown.figures.top_buyers, T, "Buyer", "Metric Tons", 10,
                        StrLess)
            /\ IsTopNBy(view.shown.figures.top_sellers, T, "Seller",
                        "Total calculated value ($)", 10, StrLess)
            /\ ExampleTopTwo(view.shown.figures.top_buyers, T)

\* eleven buyers whose records come in descending order of name, one of them
\* with two records, two of them with equal sums, and the chart leaves one out
C11_Witness ==
    /\ DashboardShown
    /\ LET T == view.shown.table_data
           top == view.shown.figures.top_buyers
       IN  /\ Cardinality(GroupsOf(T, "Buyer")) = 11
           /\ Len(top) = 10
           /\ \E i \in 1..(Len(top) - 1) : top[i].val = top[i + 1].val
                                    /\ FirstRecord(T, "Buyer", top[i].key) >
                                       FirstRecord(T, "Buyer", top[i + 1].key)
           /\ top[1].val > top[10].val
           /\ \E i \in DOMAIN top :
                 Len(SelectSeq(T, LAMBDA r : str(r["Buyer"]) = top[i].key)) = 2

(***************************************************************************)
(* Properties of the date bounds (SpecDate).                               *)
(***************************************************************************)
\* the string is a date written MM/DD/YYYY: two digits, two digits, four
\* digits, a month of the year and a day of that month
IsMMDDYYYY(s) ==
    /\ Len(s) = 10
    /\ s[3] = "/" /\ s[6] = "/"
    /\ \A i \in {1, 2, 4, 5, 7, 8, 9, 10} : IsDigit(s[i])
    /\ LET m == NatOfStr(SubSeq(s, 1, 2))
           d == NatOfStr(SubSeq(s, 4, 5))
           y == NatOfStr(SubSeq(s, 7, 10))
       IN  y >= 1 /\ m \in 1..12 /\ d >= 1 /\ d <= DaysInMonth(y, m)

\* the day a date written MM/DD/YYYY names, as yyyymmdd
DayOf(s) ==
    NatOfStr(SubSeq(s, 7, 10)) * 10000 + NatOfStr(SubSeq(s, 1, 2)) * 100 +
    NatOfStr(SubSeq(s, 4, 5))

\* the record's date is on or after the day
OnOrAfter(r, day) == r["Date"] # NaN /\ r["Date"].n >= day

\* the record's date is on or before the day
OnOrBefore(r, day) == r["Date"] # NaN /\ r["Date"].n <= day

\* the record passes the dropdown filters of the state
PassesDropdowns(r, st) ==
    \A c \in Dropdowns : ~IsUnset(st[c]) => str(r[ColumnOf(c)]) = str(st[c])

\* C12: a bound that is not a date written MM/DD/YYYY imposes no constraint
\* and leaves the other bound and the other filters in effect; a bound that
\* is one retains exactly the records dated on or after (start), on or
\* before (end) it; update_dashboard answers for every string
C12_DateBounds ==
    Answered("update_dashboard") /\ df # <<>> =>
        LET a == value["start-date"].s
            b == value["end-date"].s
        IN  /\ DashboardShown
            /\ view.shown.table_data =
                  SelectSeq(df, LAMBDA r :
                      /\ IsMMDDYYYY(a) => OnOrAfter(r, DayOf(a))
                      /\ IsMMDDYYYY(b) => OnOrBefore(r, DayOf(b))
                      /\ PassesDropdowns(r, value))

(***************************************************************************)
(* Properties of a failed load (Spec).                                     *)
(***************************************************************************)
\* the workbook could not be read and load_data has returned
LoadFailed == ~xlsx.readable /\ pc # "start"

\* C13: after a failed load the record set is empty, and whatever is typed,
\* applied or reset, the five option lists are empty and every answer of
\* update_dashboard is the "No data available" view: no metric cards, no
\* figures, no table rows
C13_LoadFailure ==
    LoadFailed =>
        /\ df = <<>>
        /\ \A c \in Dropdowns : options[c] = <<>>
        /\ view.shown.table_data = <<>>
        /\ view.shown.figures = EmptyFigures
        /\ view.out = "update_dashboard" =>
              /\ view.shown.no_data
              /\ view.shown.metrics.avg_card = ""
        /\ \A req \in pending :
              /\ req.cb = "update_dashboard" => update_dashboard(df, req.state).no_data
              /\ req.cb = "update_dropdown_options" =>
                    update_dropdown_options(df, req.state) = InitialOptions

\* after a failed load a date was typed and applied, and both callbacks of
\* the click have answered
C13_Witness ==
    /\ LoadFailed
    /\ pending = {}
    /\ last.event = "response"
    /\ last.button \in GoButtons
    /\ Truthy(last.state["start-date"])
    /\ Truthy(last.state["end-date"])
    /\ view.shown.no_data

(***************************************************************************)
(* Properties of what a click recomputes (Spec).                           *)
(***************************************************************************)
\* the step is the response of the callback to a click on the button
ResponseTo(cb, buttons) ==
    last'.event = "response" /\ last'.cb = cb /\ last'.button \in buttons

C15_FilterIdempotence ==
    DashboardShown =>
        /\ DashboardFiltered(view.shown.table_data, value) = view.shown.table_data
        /\ update_dashboard(view.shown.table_data, value).table_data =
              view.shown.table_data

\* a date and two dropdowns are set, rows were removed and rows are left
C15_Witness ==
    /\ DashboardShown
    /\ BoundInEffect(value["start-date"])
    /\ Cardinality({c \in Dropdowns : Truthy(value[c])}) >= 2
    /\ view.shown.table_data # <<>>
    /\ Len(view.shown.table_data) < Len(df)

\* C16: the frame update_dropdown_options takes the option lists from is the
\* frame update_dashboard takes the metrics, the figures and the table from
C16_PipelinesAgree ==
    /\ DashboardShown => DropdownFiltered(df, value) = view.shown.table_data
    /\ DashboardShown /\ Answered("update_dropdown_options") =>
          options = OptionLists(view.shown.table_data)
    /\ pc # "start" /\ df # <<>> =>
          \A req \in pending :
              update_dashboard(df, req.state).table_data = DropdownFiltered(df, req.state)

\* both callbacks have answered a request with a category and an end date,
\* which removed rows, and the option lists are not empty
C16_Witness ==
    /\ DashboardShown
    /\ Answered("update_dropdown_options")
    /\ Truthy(value["category-filter"])
    /\ BoundInEffect(value["end-date"])
    /\ Len(view.shown.table_data) < Len(FilterEndDate(df, value["end-date"]))
    /\ Len(FilterEndDate(df, value["end-date"])) < Len(df)
    /\ options["seller-filter"] # <<>>

\* the two callbacks of a click on the go-button have answered
ApplySettled(button) ==
    pending = {} /\ last.event = "response" /\ last.button = button

\* C17: whichever of the six go-buttons was pressed, the table holds the
\* records that match all seven inputs, and the main view and the option
\* lists are those of the seven input values
C17_ApplyButtonsAlike ==
    \A button \in GoButtons :
        ApplySettled(button) =>
            /\ view.shown = update_dashboard(df, value)
            /\ options = update_dropdown_options(df, value)
            /\ df # <<>> => view.shown.table_data = Passing(value)
            /\ df # <<>> => \A c \in Dropdowns \ {"hs-code-filter"} :
                                Range(options[c]) = Offered(c, value)

\* the date go-button was pressed with no date typed and a dropdown value
\* selected: the selection has narrowed the table
C17_Witness ==
    /\ ApplySettled("date-go-btn")
    /\ IsUnset(value["start-date"])
    /\ IsUnset(value["end-date"])
    /\ \E c \in Dropdowns : Truthy(value[c])
    /\ view.shown.table_data # <<>>
    /\ Len(view.shown.table_data) < Len(df)

(***************************************************************************)
(* Properties of records without a date (SpecDate).                        *)
(***************************************************************************)
\* the records without a date
NullDated(frame) == SelectSeq(frame, LAMBDA r : r["Date"] = NaN)

\* the cell of the workbook is no date
NoDateCell(c) == ~(c.t = "date" \/ (c.t = "str" /\ IsMMDDYYYY(c.s)))

\* C18: the loader keeps the rows whose date does not parse, with a null
\* date; such a record is in the filtered frame of both callbacks when no
\* date bound is in effect and it passes the other filters, and in neither
\* when a start or an end date is in effect
C18_NullDates ==
    /\ pc # "start" /\ xlsx.readable =>
          Len(NullDated(df)) =
              Len(SelectSeq(xlsx.rows, LAMBDA r : Allowed(r["HS Code"]) /\ NoDateCell(r["Date"])))
    /\ DashboardShown =>
          LET bound == BoundInEffect(value["start-date"]) \/ BoundInEffect(value["end-date"])
              T == view.shown.table_data
              F == DropdownFiltered(df, value)
          IN  /\ bound => NullDated(T) = <<>> /\ NullDated(F) = <<>>
              /\ ~bound =>
                    /\ NullDated(T) = SelectSeq(NullDated(df),
                                                LAMBDA r : PassesDropdowns(r, value))
                    /\ NullDated(F) = NullDated(T)

\* the frame holds a record without a date that passes the country filter,
\* a bound is in effect and keeps dated records only
C18_Witness ==
    /\ DashboardShown
    /\ \E r \in Range(NullDated(df)) : PassesDropdowns(r, value)
    /\ Truthy(value["country-filter"])
    /\ BoundInEffect(value["end-date"])
    /\ ~BoundInEffect(value["start-date"])
    /\ view.shown.table_data # <<>>
    /\ NullDated(view.shown.table_data) = <<>>

(***************************************************************************)
(* Properties of the page load (Spec).                                     *)
(***************************************************************************)
\* C19: the five option lists are empty from the start; opening the page
\* requests update_dashboard alone, with all inputs unset, and its answer
\* shows the full dataset and leaves the lists empty; the lists change only
\* with an answer to a go-button or to the global reset, never with the
\* answer to a per-dimension reset
C19_InitialOptions ==
    /\ \A c \in Dropdowns : options[c] = <<>>
    /\ [][ /\ pc' # pc => options' = InitialOptions /\ view'.out = "layout"
           /\ pc = "loaded" /\ pc' = "serving" =>
                 pending' = {Request("update_dashboard", "", InitialValue)}
           /\ ResponseTo("update_dashboard", {""}) =>
                 /\ view'.shown = update_dashboard(df', InitialValue)
                 /\ df' # <<>> => view'.shown.table_data = df'
                 /\ options' = InitialOptions
           /\ ResponseTo("update_dropdown_options", {""}) => FALSE
           /\ options' # options =>
                 ResponseTo("update_dropdown_options", GoButtons \cup {GlobalReset})
           /\ ResponseTo("handle_resets", ResetButtons) => options' = options
         ]_vars

\* the page has been opened on a loaded dataset: the table shows all of it,
\* the counts are those of the full dataset, and no option is offered
C19_Witness ==
    /\ last.event = "response"
    /\ last.button = ""
    /\ df # <<>>
    /\ view.shown.table_data = df
    /\ view.shown.metrics.total_transactions = Len(df)
    /\ options = InitialOptions

====
